---- MODULE Spec2Model ----
(***************************************************************************)
(* Bluetooth Current Time Service GATT server (bluetooth_cts_server.py).   *)
(*                                                                         *)
(* The module models the GATT object tree (Application, Service,           *)
(* Characteristic), the two read handlers that encode the wall clock, the  *)
(* Advertisement value object and the start-up sequence of main().         *)
(*                                                                         *)
(* Python's None is modelled as the empty sequence <<>> and a value v that *)
(* may be None as <<v>>.  The logger is modelled by the variable log,      *)
(* which holds the records emitted by the step that ran last.              *)
(***************************************************************************)
EXTENDS Integers, Sequences, FiniteSets, TLC

VARIABLES
    environ_TZ,      \* os.environ.get("TZ"): <<>> when unset, <<name>> when set
    host_utcoffset,  \* UTC offset (seconds) of the host's local zone
    bus_objects,     \* object paths exported on the bus (dbus.service.Object.__init__)
    app_services,    \* Application.services: sequence of service paths
    services,        \* constructed Service objects, by path
    chrcs,           \* constructed Characteristic objects, by path
    now,             \* the local variable now of the read handler that ran last
    result,          \* what the last ReadValue call gave back to the bus
    managed,         \* what the last GetManagedObjects call returned
    adv,             \* the Advertisement object's fields
    adv_props,       \* what the last Advertisement.get_properties call returned
    uuid_calls,      \* history: the uuids passed to add_service_uuid, in order
    name_calls,      \* history: the names passed to add_local_name, in order
    pc,              \* main(): the statement the process is at
    bluez_objects,   \* what org.bluez's GetManagedObjects enumerates, in order
    adapter_path,    \* main(): adapter_path, <<>> before find_adapter returns
    submitted,       \* the asynchronous registration calls sent, in order
    reply,           \* per registration call: "none", "pending", "ok", "error"
    exit_code,       \* <<>> while the process lives, <<code>> once it has ended
    stop_cause,      \* why the process ended
    log              \* the log records emitted by the step that ran last

vars == <<environ_TZ, host_utcoffset, bus_objects, app_services, services, chrcs,
          now, result, managed, adv, adv_props, uuid_calls, name_calls,
          pc, bluez_objects, adapter_path, submitted, reply, exit_code,
          stop_cause, log>>

envVars == <<environ_TZ, host_utcoffset>>
treeVars == <<bus_objects, app_services, services, chrcs>>
readVars == <<now, result>>
advVars == <<adv, adv_props, uuid_calls, name_calls>>
mainVars == <<pc, bluez_objects, adapter_path, submitted, reply, exit_code, stop_cause>>

---------------------------------------------------------------------------
(* Constants of the program *)

CTS_SERVICE_UUID == "00001805-0000-1000-8000-00805f9b34fb"
CURRENT_TIME_CHAR_UUID == "00002a2b-0000-1000-8000-00805f9b34fb"
LOCAL_TIME_INFO_CHAR_UUID == "00002a0f-0000-1000-8000-00805f9b34fb"
GATT_SERVICE_IFACE == "org.bluez.GattService1"
GATT_CHRC_IFACE == "org.bluez.GattCharacteristic1"
LE_ADVERTISEMENT_IFACE == "org.bluez.LEAdvertisement1"
ADAPTER_IFACE == "org.bluez.Adapter1"
NOT_SUPPORTED == "org.bluez.Error.NotSupported"
Service_PATH_BASE == "/org/bluez/gatt/service"
Advertisement_PATH_BASE == "/org/bluez/gatt/advertisement"
Application_path == "/"

None == <<>>
Some(v) == <<v>>
IsNone(o) == o = <<>>
Get(o) == o[1]

LogRecord(level, msg) == [level |-> level, msg |-> msg]

---------------------------------------------------------------------------
(* Calendar arithmetic of datetime (proleptic Gregorian, as Python's) *)

IsLeap(y) == (y % 4 = 0) /\ ((y % 100 # 0) \/ (y % 400 = 0))

DaysBeforeYear(y) ==
    LET p == y - 1 IN p * 365 + (p \div 4) - (p \div 100) + (p \div 400)

DaysInMonth(y, m) ==
    IF m = 2 THEN (IF IsLeap(y) THEN 29 ELSE 28)
    ELSE IF m \in {4, 6, 9, 11} THEN 30 ELSE 31

RECURSIVE DaysBeforeMonth(_, _)
DaysBeforeMonth(y, m) ==
    IF m = 1 THEN 0 ELSE DaysBeforeMonth(y, m - 1) + DaysInMonth(y, m - 1)

Ymd2Ord(y, m, d) == DaysBeforeYear(y) + DaysBeforeMonth(y, m) + d

\* The year holding ordinal n: the estimate n \div 365 is at most a few years high.
RECURSIVE YearOfOrd(_, _)
YearOfOrd(n, y) == IF DaysBeforeYear(y) < n THEN y ELSE YearOfOrd(n, y - 1)

RECURSIVE MonthOfDay(_, _, _)
MonthOfDay(y, m, k) ==
    IF k <= DaysInMonth(y, m) THEN <<m, k>> ELSE MonthOfDay(y, m + 1, k - DaysInMonth(y, m))

Ord2Ymd(n) ==
    LET y == YearOfOrd(n, (n \div 365) + 1)
        md == MonthOfDay(y, 1, n - DaysBeforeYear(y))
    IN <<y, md[1], md[2]>>

\* date.isoweekday(): 1 = Monday ... 7 = Sunday (ordinal 1 = 0001-01-01, a Monday)
isoweekday(dt) ==
    LET r == Ymd2Ord(dt.year, dt.month, dt.day) % 7 IN IF r = 0 THEN 7 ELSE r

\* An instant of the wall clock, in UTC.
Utc(y, m, d, hh, mm, ss, us) ==
    [ord |-> Ymd2Ord(y, m, d), sec |-> hh * 3600 + mm * 60 + ss, us |-> us]

\* datetime.now(tz): the UTC instant shown in a zone utcoffset seconds east of UTC.
datetime_now(utc, utcoffset) ==
    LET total == utc.sec + utcoffset
        ord == utc.ord + (total \div 86400)
        sec == total % 86400
        ymd == Ord2Ymd(ord)
    IN [year |-> ymd[1], month |-> ymd[2], day |-> ymd[3],
        hour |-> sec \div 3600, minute |-> (sec % 3600) \div 60, second |-> sec % 60,
        microsecond |-> utc.us, utcoffset |-> utcoffset]

NoNow == [year |-> 0, month |-> 0, day |-> 0, hour |-> 0, minute |-> 0, second |-> 0,
          microsecond |-> 0, utcoffset |-> 0]

---------------------------------------------------------------------------
(* The zones pytz resolves (name -> UTC offset in seconds); every other    *)
(* name makes pytz.timezone raise UnknownTimeZoneError.                    *)

PytzZones ==
    [n \in {"UTC", "Etc/GMT-2", "Asia/Kathmandu", "Etc/GMT+12", "Pacific/Kiritimati"} |->
        CASE n = "UTC" -> 0
          [] n = "Etc/GMT-2" -> 7200
          [] n = "Asia/Kathmandu" -> 20700
          [] n = "Etc/GMT+12" -> -43200
          [] n = "Pacific/Kiritimati" -> 50400]

pytz_resolves(name) == name \in DOMAIN PytzZones

---------------------------------------------------------------------------
(* The time encoder: the two read handlers *)

Byte_ok(v) == v \in 0..255

\* A handler's return value as the bus sees it: the bytes, or the error raised
\* (dbus.Byte raises for a number outside 0..255).
Reply(c, bytes) ==
    IF \A i \in 1..Len(bytes) : Byte_ok(bytes[i])
    THEN [chrc |-> c, kind |-> "value", value |-> bytes, error |-> ""]
    ELSE [chrc |-> c, kind |-> "error", value |-> <<>>,
          error |-> "org.freedesktop.DBus.Python.ValueError"]

Raise(c, name) == [chrc |-> c, kind |-> "error", value |-> <<>>, error |-> name]

NoResult == [chrc |-> "", kind |-> "none", value |-> <<>>, error |-> ""]

\* CurrentTime_now falling back to UTC, not to the host's zone, and silently
CurrentTime_now_utc_fallback(utc) ==
    IF ~IsNone(environ_TZ) /\ Get(environ_TZ) # "" /\ pytz_resolves(Get(environ_TZ))
    THEN [now |-> datetime_now(utc, PytzZones[Get(environ_TZ)]),
          log |-> <<LogRecord("info", "Using timezone")>>]
    ELSE [now |-> datetime_now(utc, 0),
          log |-> <<LogRecord("info", "Using system local time")>>]

\* lines 176-187: which zone "now" is taken in, and what is logged about it
CurrentTime_now(utc) ==
    IF ~IsNone(environ_TZ) /\ Get(environ_TZ) # ""
    THEN IF pytz_resolves(Get(environ_TZ))
         THEN [now |-> datetime_now(utc, PytzZones[Get(environ_TZ)]),
               log |-> <<LogRecord("info", "Using timezone")>>]
         ELSE [now |-> datetime_now(utc, host_utcoffset),
               log |-> <<LogRecord("warning", "Invalid timezone")>>]
    ELSE [now |-> datetime_now(utc, host_utcoffset),
          log |-> <<LogRecord("info", "Using system local time")>>]

\* fractions256 rounding to the nearest 1/256 instead of cutting
fractions256_round(microsecond) == (microsecond * 256 + 500000) \div 1000000

\* line 198: int((now.microsecond / 1000000.0) * 256).  The double division is
\* within 2^-53 of the quotient and the product is an integer only when the
\* quotient is a multiple of 1/256, which a double holds exactly, so int()
\* gives the integer floor.
fractions256(microsecond) == (microsecond * 256) \div 1000000

\* lines 190-212
CurrentTime_value(dt) ==
    << dt.year % 256,
       (dt.year \div 256) % 256,
       dt.month,
       dt.day,
       dt.hour,
       dt.minute,
       dt.second,
       isoweekday(dt),
       fractions256(dt.microsecond),
       0 >>

\* timezone_offset with floor division (utc_offset // 900)
timezone_offset_floor(utc_offset) == utc_offset \div 900

\* line 243: int(utc_offset / 900) rounds toward zero
timezone_offset(utc_offset) ==
    IF utc_offset >= 0 THEN utc_offset \div 900 ELSE -((-utc_offset) \div 900)

\* LocalTimeInfo_value without the & 0xFF
LocalTimeInfo_value_unmasked(dt) == << timezone_offset(dt.utcoffset), 0 >>

\* lines 244-249
LocalTimeInfo_value(dt) == << timezone_offset(dt.utcoffset) % 256, 0 >>

\* line 237: now = datetime.now().astimezone()
LocalTimeInfo_now(utc) == datetime_now(utc, host_utcoffset)

\* Characteristic.read_value returning an empty payload instead of raising
Characteristic_read_value_empty(c) == Reply(c, <<>>)

\* Characteristic.read_value, the base class's: lines 141-146
Characteristic_read_value(c) == Raise(c, NOT_SUPPORTED)

\* Characteristic.ReadValue on the characteristic at path c, the wall clock
\* showing utc: logs, then dispatches to the class's read_value.
ReadValue(c, utc) ==
    /\ pc = "mainloop"
    /\ c \in DOMAIN chrcs
    /\ LET called == LogRecord("debug", "ReadValue called")
       IN CASE chrcs[c].cls = "CurrentTimeCharacteristic" ->
                 LET sel == CurrentTime_now(utc) IN
                 /\ now' = sel.now
                 /\ result' = Reply(c, CurrentTime_value(sel.now))
                 /\ log' = <<called>> \o sel.log \o <<LogRecord("info", "BLE time sent")>>
            [] chrcs[c].cls = "LocalTimeInfoCharacteristic" ->
                 LET dt == LocalTimeInfo_now(utc) IN
                 /\ now' = dt
                 /\ result' = Reply(c, LocalTimeInfo_value(dt))
                 /\ log' = <<called, LogRecord("info", "BLE timezone offset sent")>>
            [] OTHER ->
                 /\ now' = now
                 /\ result' = Characteristic_read_value(c)
                 /\ log' = <<called>>
    /\ UNCHANGED <<envVars, treeVars, managed, advVars, mainVars>>

---------------------------------------------------------------------------
(* The GATT object model *)

MaxLen == 2          \* longest services / characteristics list explored

EmptyMap == [k \in {} |-> 0]

\* f"{index:04d}"
Format04d(index) ==
    IF index < 10 THEN "000" \o ToString(index)
    ELSE IF index < 100 THEN "00" \o ToString(index)
    ELSE IF index < 1000 THEN "0" \o ToString(index)
    ELSE ToString(index)

Service_path(index) == Service_PATH_BASE \o ToString(index)
Characteristic_path(service, index) == service \o "/char" \o Format04d(index)

\* dbus.service.Object.__init__ exports the object; the bus refuses a second
\* object on a path, so the constructor raises and no object comes to exist.
CanExport(path) == path \notin bus_objects

\* Application.__init__: self.services = []
NewApplication_services == <<>>

\* Service.__init__
NewService(uuid, primary) == [uuid |-> uuid, primary |-> primary, characteristics |-> <<>>]

Service_init(index, uuid, primary) ==
    LET path == Service_path(index) IN
    /\ IsNone(exit_code)
    /\ CanExport(path)
    /\ bus_objects' = bus_objects \cup {path}
    /\ services' = (path :> NewService(uuid, primary)) @@ services
    /\ UNCHANGED <<envVars, app_services, chrcs, readVars, managed, advVars, mainVars, log>>

\* Characteristic.__init__ (cls names the class that is instantiated)
NewCharacteristic(cls, uuid, flags, service) ==
    [cls |-> cls, uuid |-> uuid, flags |-> flags, service |-> service]

Characteristic_init(index, uuid, flags, service) ==
    LET path == Characteristic_path(service, index) IN
    /\ IsNone(exit_code)
    /\ service \in DOMAIN services
    /\ CanExport(path)
    /\ bus_objects' = bus_objects \cup {path}
    /\ chrcs' = (path :> NewCharacteristic("Characteristic", uuid, flags, service)) @@ chrcs
    /\ UNCHANGED <<envVars, app_services, services, readVars, managed, advVars, mainVars, log>>

\* CurrentTimeCharacteristic.__init__ / LocalTimeInfoCharacteristic.__init__
NewCurrentTimeCharacteristic(service) ==
    NewCharacteristic("CurrentTimeCharacteristic", CURRENT_TIME_CHAR_UUID, <<"read">>, service)

NewLocalTimeInfoCharacteristic(service) ==
    NewCharacteristic("LocalTimeInfoCharacteristic", LOCAL_TIME_INFO_CHAR_UUID, <<"read">>, service)

\* CTSService.__init__: the service, its two characteristics (indexes 0 and 1),
\* each added to the service's list.
CTSService_build(index) ==
    LET path == Service_path(index)
        c0 == Characteristic_path(path, 0)
        c1 == Characteristic_path(path, 1)
    IN /\ CanExport(path) /\ CanExport(c0) /\ CanExport(c1)
       /\ services' = (path :> [NewService(CTS_SERVICE_UUID, TRUE)
                                  EXCEPT !.characteristics = <<c0, c1>>]) @@ services
       /\ chrcs' = (c0 :> NewCurrentTimeCharacteristic(path))
                   @@ (c1 :> NewLocalTimeInfoCharacteristic(path)) @@ chrcs

CTSService_init(index) ==
    /\ IsNone(exit_code)
    /\ CTSService_build(index)
    /\ bus_objects' = bus_objects \cup
          {Service_path(index), Characteristic_path(Service_path(index), 0),
           Characteristic_path(Service_path(index), 1)}
    /\ UNCHANGED <<envVars, app_services, readVars, managed, advVars, mainVars, log>>

\* Application.add_service
add_service_list(list, service) == Append(list, service)

add_service(service) ==
    /\ IsNone(exit_code)
    /\ Application_path \in bus_objects
    /\ service \in DOMAIN services
    /\ Len(app_services) < MaxLen
    /\ app_services' = add_service_list(app_services, service)
    /\ UNCHANGED <<envVars, bus_objects, services, chrcs, readVars, managed, advVars,
                   mainVars, log>>

\* Service.add_characteristic
add_characteristic(service, chrc) ==
    /\ IsNone(exit_code)
    /\ service \in DOMAIN services
    /\ chrc \in DOMAIN chrcs
    /\ Len(services[service].characteristics) < MaxLen
    /\ services' = [services EXCEPT ![service].characteristics = Append(@, chrc)]
    /\ UNCHANGED <<envVars, bus_objects, app_services, chrcs, readVars, managed, advVars,
                   mainVars, log>>

\* Service.get_properties / Characteristic.get_properties
Service_get_properties(s) ==
    [iface |-> GATT_SERVICE_IFACE, UUID |-> services[s].uuid,
     Primary |-> services[s].primary, Characteristics |-> services[s].characteristics,
     Service |-> "", Flags |-> <<>>]

Characteristic_get_properties(c) ==
    [iface |-> GATT_CHRC_IFACE, UUID |-> chrcs[c].uuid, Primary |-> FALSE,
     Characteristics |-> <<>>, Service |-> chrcs[c].service, Flags |-> chrcs[c].flags]

\* response[key] = value: a later assignment to a key replaces the earlier one
DictSet(response, key, value) == (key :> value) @@ response

\* PutCharacteristics leaving the loop after the first characteristic
PutCharacteristics_first_only(response, list, i) ==
    IF list = <<>> THEN response
    ELSE DictSet(response, list[1], Characteristic_get_properties(list[1]))

RECURSIVE PutCharacteristics(_, _, _)
PutCharacteristics(response, list, i) ==
    IF i > Len(list) THEN response
    ELSE PutCharacteristics(
             DictSet(response, list[i], Characteristic_get_properties(list[i])), list, i + 1)

RECURSIVE PutServices(_, _)
PutServices(response, i) ==
    IF i > Len(app_services) THEN response
    ELSE LET s == app_services[i] IN
         PutServices(
             PutCharacteristics(DictSet(response, s, Service_get_properties(s)),
                                services[s].characteristics, 1),
             i + 1)

\* Application.GetManagedObjects
GetManagedObjects_response == PutServices(EmptyMap, 1)

GetManagedObjects ==
    /\ pc = "mainloop"
    /\ Application_path \in bus_objects
    /\ managed' = GetManagedObjects_response
    /\ UNCHANGED <<envVars, treeVars, readVars, advVars, mainVars, log>>

---------------------------------------------------------------------------
(* The Advertisement *)

MaxUuids == 3        \* most add_service_uuid calls explored
MaxNames == 2        \* most add_local_name calls explored

NoAdvertisement ==
    [exists |-> FALSE, ad_type |-> "", service_uuids |-> None, local_name |-> None,
     include_tx_power |-> FALSE]

\* Advertisement.__init__
NewAdvertisement(advertising_type) ==
    [exists |-> TRUE, ad_type |-> advertising_type, service_uuids |-> None,
     local_name |-> None, include_tx_power |-> FALSE]

Advertisement_path(index) == Advertisement_PATH_BASE \o ToString(index)

\* service_uuids_add starting a new list on every call
service_uuids_add_reset(service_uuids, uuid) == Some(<<uuid>>)

\* Advertisement.add_service_uuid: "if not self.service_uuids" is true of None
\* and of the empty list
service_uuids_add(service_uuids, uuid) ==
    IF IsNone(service_uuids) \/ Get(service_uuids) = <<>>
    THEN Some(<<uuid>>)
    ELSE Some(Append(Get(service_uuids), uuid))

\* Advertisement.add_local_name (name may be None)
local_name_set(name) == name

\* Advertisement.get_properties, the LE_ADVERTISEMENT_IFACE entry: key -> value
Advertisement_properties(a) ==
    ("Type" :> a.ad_type)
    @@ (IF ~IsNone(a.service_uuids) THEN "ServiceUUIDs" :> Get(a.service_uuids) ELSE EmptyMap)
    @@ (IF ~IsNone(a.local_name) THEN "LocalName" :> Get(a.local_name) ELSE EmptyMap)
    @@ (IF a.include_tx_power THEN "IncludeTxPower" :> TRUE ELSE EmptyMap)

add_service_uuid(uuid) ==
    /\ adv.exists
    /\ adv' = [adv EXCEPT !.service_uuids = service_uuids_add(@, uuid)]

add_local_name(name) ==
    /\ adv.exists
    /\ adv' = [adv EXCEPT !.local_name = local_name_set(name)]

\* adv.include_tx_power = value
set_include_tx_power(value) ==
    /\ adv.exists
    /\ adv' = [adv EXCEPT !.include_tx_power = value]

\* Advertisement.GetAll(LE_ADVERTISEMENT_IFACE)
Advertisement_GetAll ==
    /\ pc = "mainloop"
    /\ adv.exists
    /\ adv_props' = Advertisement_properties(adv)
    /\ UNCHANGED <<envVars, treeVars, readVars, managed, adv, uuid_calls, name_calls,
                   mainVars, log>>

---------------------------------------------------------------------------
(* The registrar: main() from the D-Bus initialisation on *)

RegisterApplication == "RegisterApplication"
RegisterAdvertisement == "RegisterAdvertisement"

NoReplies == [c \in {RegisterApplication, RegisterAdvertisement} |-> "none"]

\* find_adapter: the first enumerated object that implements Adapter1
RECURSIVE find_adapter_from(_, _)
find_adapter_from(objects, i) ==
    IF i > Len(objects) THEN None
    ELSE IF ADAPTER_IFACE \in objects[i].ifaces THEN Some(objects[i].path)
    ELSE find_adapter_from(objects, i + 1)

\* find_adapter keeping the last adapter enumerated, not the first
RECURSIVE find_adapter_last_from(_, _)
find_adapter_last_from(objects, i) ==
    IF i < 1 THEN None
    ELSE IF ADAPTER_IFACE \in objects[i].ifaces THEN Some(objects[i].path)
    ELSE find_adapter_last_from(objects, i - 1)

find_adapter_last(objects) == find_adapter_last_from(objects, Len(objects))

find_adapter(objects) == find_adapter_from(objects, 1)

\* lines 405-410
main_find_adapter ==
    /\ pc = "find_adapter"
    /\ adapter_path' = find_adapter(bluez_objects)
    /\ IF IsNone(adapter_path')
       THEN /\ log' = <<LogRecord("error", "No Bluetooth adapter found!")>>
            /\ exit_code' = Some(1)
            /\ stop_cause' = "no adapter"
            /\ pc' = "exited"
       ELSE /\ log' = <<LogRecord("info", "Using Bluetooth adapter")>>
            /\ pc' = "build_application"
            /\ UNCHANGED <<exit_code, stop_cause>>
    /\ UNCHANGED <<envVars, treeVars, readVars, managed, advVars, bluez_objects,
                   submitted, reply>>

\* lines 413-415
main_build_application ==
    /\ pc = "build_application"
    /\ CanExport(Application_path)
    /\ CTSService_build(0)
    /\ app_services' = add_service_list(NewApplication_services, Service_path(0))
    /\ bus_objects' = bus_objects \cup
          {Application_path, Service_path(0), Characteristic_path(Service_path(0), 0),
           Characteristic_path(Service_path(0), 1)}
    /\ pc' = "register_application"
    /\ log' = <<>>
    /\ UNCHANGED <<envVars, readVars, managed, advVars, bluez_objects, adapter_path,
                   submitted, reply, exit_code, stop_cause>>

\* register_application / register_advertisement: the call is sent with a reply
\* handler and an error handler and returns at once
submit(call) ==
    /\ submitted' = Append(submitted, call)
    /\ reply' = [reply EXCEPT ![call] = "pending"]

\* lines 417-418
main_register_application ==
    /\ pc = "register_application"
    /\ submit(RegisterApplication)
    /\ pc' = "build_advertisement"
    /\ log' = <<LogRecord("info", "Registering Current Time Service...")>>
    /\ UNCHANGED <<envVars, treeVars, readVars, managed, advVars, bluez_objects,
                   adapter_path, exit_code, stop_cause>>

\* lines 421-424
main_build_advertisement(device_name) ==
    /\ pc = "build_advertisement"
    /\ CanExport(Advertisement_path(0))
    /\ bus_objects' = bus_objects \cup {Advertisement_path(0)}
    /\ adv' = [NewAdvertisement("peripheral") EXCEPT
                 !.service_uuids = service_uuids_add(None, CTS_SERVICE_UUID),
                 !.local_name = local_name_set(Some(device_name)),
                 !.include_tx_power = TRUE]
    /\ uuid_calls' = <<CTS_SERVICE_UUID>>
    /\ name_calls' = <<Some(device_name)>>
    /\ pc' = "register_advertisement"
    /\ log' = <<>>
    /\ UNCHANGED <<envVars, app_services, services, chrcs, readVars, managed, adv_props,
                   bluez_objects, adapter_path, submitted, reply, exit_code, stop_cause>>

\* lines 426-427
main_register_advertisement ==
    /\ pc = "register_advertisement"
    /\ submit(RegisterAdvertisement)
    /\ pc' = "enter_mainloop"
    /\ log' = <<LogRecord("info", "Registering advertisement...")>>
    /\ UNCHANGED <<envVars, treeVars, readVars, managed, advVars, bluez_objects,
                   adapter_path, exit_code, stop_cause>>

\* lines 429-435: mainloop.run() starts dispatching
main_run ==
    /\ pc = "enter_mainloop"
    /\ pc' = "mainloop"
    /\ log' = <<LogRecord("info", "CTS server is running - devices can now sync time"),
                LogRecord("info", "Press Ctrl+C to stop")>>
    /\ UNCHANGED <<envVars, treeVars, readVars, managed, advVars, bluez_objects,
                   adapter_path, submitted, reply, exit_code, stop_cause>>

\* The loop delivers the stack's answer to a pending registration call:
\* reply_handler (ok) or error_handler (not ok).  Both handlers only log.
handler_log(call, ok) ==
    IF ok
    THEN <<LogRecord("info", IF call = RegisterApplication
                             THEN "GATT application registered"
                             ELSE "Advertisement registered")>>
    ELSE <<LogRecord("error", IF call = RegisterApplication
                              THEN "Failed to register application"
                              ELSE "Failed to register advertisement")>>

\* handler_effect with an error handler that ends the process
handler_effect_fatal(call, ok) ==
    /\ log' = handler_log(call, ok)
    /\ IF ok THEN UNCHANGED <<pc, exit_code, stop_cause>>
       ELSE /\ pc' = "exited"
            /\ exit_code' = Some(1)
            /\ stop_cause' = "registration rejected"
    /\ UNCHANGED <<envVars, treeVars, readVars, managed, advVars, bluez_objects,
                   adapter_path, submitted>>

handler_effect(call, ok) ==
    /\ log' = handler_log(call, ok)
    /\ UNCHANGED <<envVars, treeVars, readVars, managed, advVars, pc, bluez_objects,
                   adapter_path, submitted, exit_code, stop_cause>>

registration_callback(call, ok) ==
    /\ pc = "mainloop"
    /\ reply[call] = "pending"
    /\ reply' = [reply EXCEPT ![call] = IF ok THEN "ok" ELSE "error"]
    /\ handler_effect(call, ok)

\* lines 434-437: an interrupt signal while the loop runs is caught
except_KeyboardInterrupt ==
    /\ exit_code' = Some(0)
    /\ stop_cause' = "interrupt caught"
    /\ log' = <<LogRecord("info", "Shutting down...")>>

interrupt_in_mainloop ==
    /\ pc = "mainloop"
    /\ pc' = "exited"
    /\ except_KeyboardInterrupt
    /\ UNCHANGED <<envVars, treeVars, readVars, managed, advVars, bluez_objects,
                   adapter_path, submitted, reply>>

\* No handler encloses lines 400-433: an exception raised there leaves main()
\* and ends the process with a traceback.  A KeyboardInterrupt can be raised
\* at any statement; a DBusException by the blocking bus calls of find_adapter
\* (lines 334-338) and of the two register functions (lines 320-323, 350-353).
uncaught(exception) ==
    /\ pc \in {"find_adapter", "build_application", "register_application",
               "build_advertisement", "register_advertisement", "enter_mainloop"}
    /\ exception = "DBusException" =>
          pc \in {"find_adapter", "register_application", "register_advertisement"}
    /\ pc' = "exited"
    /\ exit_code' = Some(IF exception = "KeyboardInterrupt" THEN 130 ELSE 1)
    /\ stop_cause' = "uncaught " \o exception
    /\ log' = <<>>
    /\ UNCHANGED <<envVars, treeVars, readVars, managed, advVars, bluez_objects,
                   adapter_path, submitted, reply>>

---------------------------------------------------------------------------
(* Inputs *)

\* TZ in the environment: unset, empty, names pytz resolves, names it does not
EnvTZ ==
    {None, Some(""), Some("UTC"), Some("Etc/GMT-2"), Some("Asia/Kathmandu"),
     Some("Etc/GMT+12"), Some("Pacific/Kiritimati"), Some("Mars/Olympus_Mons")}

\* Offsets of the host's local zone: whole quarter hours over the nominal
\* range, and offsets (POSIX TZ strings, local mean time) that are not
HostOffsets == {-43200, -11220, -450, 0, 1172, 7200, 20700, 50400}

\* Instants of the wall clock (UTC): year, month, day, hour, minute, second,
\* microsecond
Clock ==
    { <<1, 1, 2, 0, 0, 0, 0>>,
      <<255, 12, 31, 23, 59, 59, 999999>>,
      <<1999, 12, 31, 12, 30, 45, 500000>>,
      <<2000, 2, 29, 0, 0, 0, 3906>>,
      <<2023, 12, 31, 18, 15, 0, 3907>>,
      <<2024, 1, 1, 0, 0, 0, 1>>,
      <<2024, 2, 28, 21, 7, 30, 0>>,
      <<2024, 2, 29, 23, 59, 59, 996094>>,
      <<2024, 3, 15, 12, 30, 45, 500000>>,
      <<2026, 11, 1, 6, 0, 0, 250000>>,
      <<2100, 2, 28, 23, 59, 59, 999999>>,
      <<9999, 12, 30, 23, 59, 59, 999999>> }

UtcInstants == { Utc(t[1], t[2], t[3], t[4], t[5], t[6], t[7]) : t \in Clock }

ServiceIndexes == {0, 1}
BaseFlags == { <<"notify">>, <<"read">>, <<>> }
OTHER_UUID == "00002a19-0000-1000-8000-00805f9b34fb"
UuidInputs == {CTS_SERVICE_UUID, OTHER_UUID}
NameInputs == {None, Some(""), Some("HomeAssistant-CTS")}
DeviceNames == {"HomeAssistant-CTS", "Clock"}

\* What org.bluez may enumerate: each object once, in any order
BluezObject(path, ifaces) == [path |-> path, ifaces |-> ifaces]
PossibleObjects ==
    { BluezObject("/org/bluez", {"org.bluez.AgentManager1"}),
      BluezObject("/org/bluez/hci0", {ADAPTER_IFACE, "org.bluez.GattManager1"}),
      BluezObject("/org/bluez/hci1", {ADAPTER_IFACE, "org.bluez.GattManager1"}) }

RECURSIVE Orderings(_)
Orderings(S) ==
    IF S = {} THEN {<<>>}
    ELSE UNION { { <<x>> \o rest : rest \in Orderings(S \ {x}) } : x \in S }

Enumerations == UNION { Orderings(S) : S \in SUBSET PossibleObjects }

---------------------------------------------------------------------------
(* Specifications *)

\* The state with nothing built but the Application and the loop dispatching.
InitObjects ==
    /\ bus_objects = {Application_path}
    /\ app_services = NewApplication_services
    /\ services = EmptyMap
    /\ chrcs = EmptyMap
    /\ now = NoNow
    /\ result = NoResult
    /\ managed = EmptyMap
    /\ adv = NoAdvertisement
    /\ adv_props = EmptyMap
    /\ uuid_calls = <<>>
    /\ name_calls = <<>>
    /\ pc = "mainloop"
    /\ bluez_objects = <<>>
    /\ adapter_path = None
    /\ submitted = <<>>
    /\ reply = NoReplies
    /\ exit_code = None
    /\ stop_cause = ""
    /\ log = <<>>

\* Reads: the tree of CTSService plus a plain Characteristic, read at any instant
InitRead ==
    /\ environ_TZ \in EnvTZ
    /\ host_utcoffset \in HostOffsets
    /\ InitObjects

NextRead ==
    \/ CTSService_init(0)
    \/ \E flags \in BaseFlags : Characteristic_init(2, OTHER_UUID, flags, Service_path(0))
    \/ \E c \in DOMAIN chrcs : \E utc \in UtcInstants : ReadValue(c, utc)

SpecRead == InitRead /\ [][NextRead]_vars

\* The object tree under any sequence of constructor and add_ calls
InitGatt ==
    /\ environ_TZ = None
    /\ host_utcoffset = 0
    /\ InitObjects

NextGatt ==
    \/ \E i \in ServiceIndexes : Service_init(i, OTHER_UUID, TRUE)
    \/ \E i \in ServiceIndexes : CTSService_init(i)
    \/ \E s \in DOMAIN services : Characteristic_init(0, OTHER_UUID, <<"read">>, s)
    \/ \E s \in DOMAIN services : add_service(s)
    \/ \E s \in DOMAIN services : \E c \in DOMAIN chrcs : add_characteristic(s, c)
    \/ GetManagedObjects

SpecGatt == InitGatt /\ [][NextGatt]_vars

\* The Advertisement under any sequence of its mutators
InitAdv ==
    /\ environ_TZ = None
    /\ host_utcoffset = 0
    /\ bus_objects = {Advertisement_path(0)}
    /\ app_services = NewApplication_services
    /\ services = EmptyMap
    /\ chrcs = EmptyMap
    /\ now = NoNow
    /\ result = NoResult
    /\ managed = EmptyMap
    /\ adv \in {NewAdvertisement("peripheral"), NewAdvertisement("broadcast")}
    /\ adv_props = EmptyMap
    /\ uuid_calls = <<>>
    /\ name_calls = <<>>
    /\ pc = "mainloop"
    /\ bluez_objects = <<>>
    /\ adapter_path = None
    /\ submitted = <<>>
    /\ reply = NoReplies
    /\ exit_code = None
    /\ stop_cause = ""
    /\ log = <<>>

advRest == <<envVars, treeVars, readVars, managed, adv_props, mainVars, log>>

NextAdv ==
    \/ \E u \in UuidInputs :
          /\ Len(uuid_calls) < MaxUuids
          /\ add_service_uuid(u)
          /\ uuid_calls' = Append(uuid_calls, u)
          /\ UNCHANGED <<name_calls, advRest>>
    \/ \E n \in NameInputs :
          /\ Len(name_calls) < MaxNames
          /\ add_local_name(n)
          /\ name_calls' = Append(name_calls, n)
          /\ UNCHANGED <<uuid_calls, advRest>>
    \/ \E b \in BOOLEAN :
          /\ set_include_tx_power(b)
          /\ UNCHANGED <<uuid_calls, name_calls, advRest>>
    \/ Advertisement_GetAll

SpecAdv == InitAdv /\ [][NextAdv]_vars

\* The process from the D-Bus initialisation to its end
InitMain ==
    /\ environ_TZ = None
    /\ host_utcoffset = 0
    /\ bus_objects = {}
    /\ app_services = <<>>
    /\ services = EmptyMap
    /\ chrcs = EmptyMap
    /\ now = NoNow
    /\ result = NoResult
    /\ managed = EmptyMap
    /\ adv = NoAdvertisement
    /\ adv_props = EmptyMap
    /\ uuid_calls = <<>>
    /\ name_calls = <<>>
    /\ pc = "find_adapter"
    /\ bluez_objects \in Enumerations
    /\ adapter_path = None
    /\ submitted = <<>>
    /\ reply = NoReplies
    /\ exit_code = None
    /\ stop_cause = ""
    /\ log = <<>>

NextMain ==
    \/ main_find_adapter
    \/ main_build_application
    \/ main_register_application
    \/ \E name \in DeviceNames : main_build_advertisement(name)
    \/ main_register_advertisement
    \/ main_run
    \/ \E call \in {RegisterApplication, RegisterAdvertisement} : \E ok \in BOOLEAN :
          registration_callback(call, ok)
    \/ GetManagedObjects
    \/ Advertisement_GetAll
    \/ interrupt_in_mainloop
    \/ \E e \in {"KeyboardInterrupt", "DBusException"} : uncaught(e)

SpecMain == InitMain /\ [][NextMain]_vars

---------------------------------------------------------------------------
(* Properties of the read handlers (SpecRead) *)

ReadBy(cls) == result.kind # "none" /\ chrcs[result.chrc].cls = cls

Signed8(b) == IF b >= 128 THEN b - 256 ELSE b

\* Days since Monday 2024-01-01, as a weekday number 1..7
WeekdayFromMonday(dt) ==
    ((Ymd2Ord(dt.year, dt.month, dt.day) - Ymd2Ord(2024, 1, 1)) % 7) + 1

ValidDateTime(dt) ==
    /\ dt.year \in 1..9999 /\ dt.month \in 1..12
    /\ dt.day \in 1..DaysInMonth(dt.year, dt.month)
    /\ dt.hour \in 0..23 /\ dt.minute \in 0..59 /\ dt.second \in 0..59
    /\ dt.microsecond \in 0..999999

\* C1: a Current-Time read returns exactly 10 bytes, [year low, year high,
\* month, day, hour, minute, second, ISO weekday, fraction, adjust reason];
\* low + 256 * high and the other fields give back the date and time read, the
\* weekday is in 1..7 with 1 = Monday, the fraction is
\* floor(microsecond * 256 / 1000000) in 0..255, and the adjust reason is 0.
C1_CurrentTimeRoundTrip ==
    (ReadBy("CurrentTimeCharacteristic") /\ ValidDateTime(now)) =>
        LET v == result.value IN
        /\ result.kind = "value"
        /\ Len(v) = 10
        /\ \A i \in 1..10 : v[i] \in 0..255
        /\ v[1] + 256 * v[2] = now.year
        /\ v[3] = now.month /\ v[4] = now.day
        /\ v[5] = now.hour /\ v[6] = now.minute /\ v[7] = now.second
        /\ v[8] \in 1..7 /\ v[8] = WeekdayFromMonday(now)
        /\ v[9] * 1000000 <= now.microsecond * 256
        /\ now.microsecond * 256 < (v[9] + 1) * 1000000
        /\ v[10] = 0

\* 2024-03-15 14:30:45.500000 in a zone two hours east of UTC
C1_Witness ==
    /\ ReadBy("CurrentTimeCharacteristic")
    /\ now = [year |-> 2024, month |-> 3, day |-> 15, hour |-> 14, minute |-> 30,
              second |-> 45, microsecond |-> 500000, utcoffset |-> 7200]
    /\ result.value = <<232, 7, 3, 15, 14, 30, 45, 5, 128, 0>>

NominalQuarterHours(utc_offset) ==
    /\ utc_offset % 900 = 0
    /\ \E q \in -48..56 : utc_offset = q * 900

\* C2: for a UTC offset that is a whole multiple of 900 s with quotient in
\* -48..56, a Local-Time-Information read returns exactly 2 bytes; the first,
\* read as a signed 8-bit number and multiplied by 900, is the offset, and the
\* second (DST) byte is 0.
C2_LocalTimeInfoRoundTrip ==
    (ReadBy("LocalTimeInfoCharacteristic") /\ NominalQuarterHours(now.utcoffset)) =>
        /\ result.kind = "value"
        /\ Len(result.value) = 2
        /\ Signed8(result.value[1]) * 900 = now.utcoffset
        /\ result.value[2] = 0

C2_Witness ==
    /\ ReadBy("LocalTimeInfoCharacteristic")
    /\ now.utcoffset = -43200
    /\ result.value = <<208, 0>>

TZ_configured == ~IsNone(environ_TZ) /\ pytz_resolves(Get(environ_TZ))

\* C3: the zone of a Local-Time-Information read is the zone a Current-Time
\* read uses under the same configuration: when TZ is set and resolves, the
\* offset byte is the configured zone's offset in quarter hours (UTC+2 gives
\* [8, 0]).
C3_LocalTimeInfoUsesConfiguredZone ==
    (ReadBy("LocalTimeInfoCharacteristic") /\ TZ_configured) =>
        /\ now.utcoffset = PytzZones[Get(environ_TZ)]
        /\ result.kind = "value"
        /\ Signed8(result.value[1]) * 900 = PytzZones[Get(environ_TZ)]

WarningLogged == \E i \in 1..Len(log) : log[i].level = "warning"

PayloadShows(dt) ==
    /\ result.kind = "value"
    /\ Len(result.value) = 10
    /\ result.value[4] = dt.day /\ result.value[5] = dt.hour /\ result.value[6] = dt.minute

ShownIn(utcoffset) ==
    /\ now.utcoffset = utcoffset
    /\ \E utc \in UtcInstants : now = datetime_now(utc, utcoffset)
    /\ PayloadShows(now)

\* C7 as stated: for every value of TZ (unset, valid, any invalid string) a
\* Current-Time read returns a 10-byte payload; when the name is set and does
\* not resolve a warning is logged and the payload is in the host's zone; when
\* it resolves the payload is in the configured zone.
C7_Original ==
    ReadBy("CurrentTimeCharacteristic") =>
        /\ result.kind = "value" /\ Len(result.value) = 10
        /\ (~IsNone(environ_TZ) /\ ~pytz_resolves(Get(environ_TZ))) =>
              (WarningLogged /\ ShownIn(host_utcoffset))
        /\ TZ_configured => ShownIn(PytzZones[Get(environ_TZ)])

\* C7 as amended: the warning is logged when the name is a non-empty string
\* that does not resolve; an empty name is treated as unset: the payload is in
\* the host's zone and no warning is logged.
C7_TimezoneFallback ==
    ReadBy("CurrentTimeCharacteristic") =>
        /\ result.kind = "value" /\ Len(result.value) = 10
        /\ (~IsNone(environ_TZ) /\ Get(environ_TZ) # "" /\ ~pytz_resolves(Get(environ_TZ))) =>
              (WarningLogged /\ ShownIn(host_utcoffset))
        /\ (IsNone(environ_TZ) \/ Get(environ_TZ) = "") =>
              (~WarningLogged /\ ShownIn(host_utcoffset))
        /\ TZ_configured => (~WarningLogged /\ ShownIn(PytzZones[Get(environ_TZ)]))

C7_Witness ==
    /\ ReadBy("CurrentTimeCharacteristic")
    /\ environ_TZ = Some("Mars/Olympus_Mons")
    /\ host_utcoffset = 20700
    /\ WarningLogged
    /\ now.utcoffset = 20700
    /\ result.kind = "value"
    /\ result.value[5] = 18 /\ result.value[6] = 15

\* C10 as stated: for every UTC offset, negative ones that are not multiples
\* of 900 included, the first Local-Time-Information byte is
\* floor(utc_offset_seconds / 900) mod 256.
C10_Original ==
    ReadBy("LocalTimeInfoCharacteristic") =>
        /\ result.kind = "value"
        /\ \E q \in -128..127 :
              /\ q * 900 <= now.utcoffset /\ now.utcoffset < (q + 1) * 900
              /\ result.value[1] = q % 256

\* C10 as amended: the first byte is utc_offset_seconds / 900 rounded toward
\* zero, mod 256 (the floor for offsets >= 0 and for multiples of 900).
C10_OffsetTowardZero ==
    ReadBy("LocalTimeInfoCharacteristic") =>
        /\ result.kind = "value"
        /\ \E q \in -128..127 :
              /\ now.utcoffset >= 0 =>
                    (q * 900 <= now.utcoffset /\ now.utcoffset < (q + 1) * 900)
              /\ now.utcoffset < 0 =>
                    ((q - 1) * 900 < now.utcoffset /\ now.utcoffset <= q * 900)
              /\ result.value[1] = q % 256

\* -3:07: -11220 / 900 = -12.47, sent as -12
C10_Witness ==
    /\ ReadBy("LocalTimeInfoCharacteristic")
    /\ now.utcoffset = -11220
    /\ result.value = <<244, 0>>

Unreadable(c) == \A i \in 1..Len(chrcs[c].flags) : chrcs[c].flags[i] # "read"

---------------------------------------------------------------------------
(* Properties of the object tree (SpecGatt) *)

RECURSIVE TotalCharacteristics(_)
TotalCharacteristics(i) ==
    IF i > Len(app_services) THEN 0
    ELSE Len(services[app_services[i]].characteristics) + TotalCharacteristics(i + 1)

NoDuplicates(list) == \A i, j \in 1..Len(list) : i # j => list[i] # list[j]

\* N + M entries, and every characteristic entry's "Service" is the key of a
\* service entry
CompleteAndConsistent(response) ==
    /\ Cardinality(DOMAIN response) = Len(app_services) + TotalCharacteristics(1)
    /\ Cardinality({k \in DOMAIN response : response[k].iface = GATT_SERVICE_IFACE})
          = Len(app_services)
    /\ \A k \in DOMAIN response :
          response[k].iface = GATT_CHRC_IFACE =>
              /\ response[k].Service \in DOMAIN response
              /\ response[response[k].Service].iface = GATT_SERVICE_IFACE

\* C4 as stated: for an Application built by any sequence of add_service and
\* add_characteristic calls, with N services and M characteristics in total,
\* GetManagedObjects returns N + M entries and every characteristic entry's
\* "Service" path is the key of one of the N service entries.
C4_Original == CompleteAndConsistent(GetManagedObjects_response)

\* Every service was added once, and every characteristic once, to the
\* service it was constructed with.
EachAddedOnceToItsOwner ==
    /\ NoDuplicates(app_services)
    /\ \A i \in 1..Len(app_services) :
          LET list == services[app_services[i]].characteristics IN
          /\ NoDuplicates(list)
          /\ \A k \in 1..Len(list) : chrcs[list[k]].service = app_services[i]

\* C4 as amended: the same, for an Application whose objects have pairwise
\* distinct paths (objects are identified by path here, as on one bus
\* connection), to which every service was added once and in which every
\* characteristic was added once, to the service it was constructed with.
C4_ManagedObjects ==
    EachAddedOnceToItsOwner => CompleteAndConsistent(GetManagedObjects_response)

C4_Witness ==
    /\ EachAddedOnceToItsOwner
    /\ Len(app_services) = 2
    /\ TotalCharacteristics(1) = 4
    /\ managed = GetManagedObjects_response
    /\ Cardinality(DOMAIN managed) = 6

---------------------------------------------------------------------------
(* Properties of the Advertisement (SpecAdv) *)

\* C5: in every state reached by add_service_uuid, add_local_name and
\* assignments to include_tx_power, get_properties has no ServiceUUIDs key
\* when no UUID was added and otherwise holds all added UUIDs in the order
\* added; no LocalName key when no name was set; no IncludeTxPower key when the
\* flag is false; and no key whose field is None.
C5_OnlySetFields ==
    LET props == Advertisement_properties(adv) IN
    /\ "ServiceUUIDs" \in DOMAIN props <=> uuid_calls # <<>>
    /\ "ServiceUUIDs" \in DOMAIN props =>
          (props["ServiceUUIDs"] = uuid_calls /\ ~IsNone(adv.service_uuids))
    /\ name_calls = <<>> => "LocalName" \notin DOMAIN props
    /\ "LocalName" \in DOMAIN props =>
          (~IsNone(adv.local_name)
           /\ Some(props["LocalName"]) = name_calls[Len(name_calls)])
    /\ ~adv.include_tx_power => "IncludeTxPower" \notin DOMAIN props
    /\ "IncludeTxPower" \in DOMAIN props => props["IncludeTxPower"] = TRUE
    /\ DOMAIN props \subseteq {"Type", "ServiceUUIDs", "LocalName", "IncludeTxPower"}

C5_Witness ==
    /\ uuid_calls = <<OTHER_UUID, CTS_SERVICE_UUID, OTHER_UUID>>
    /\ name_calls = <<>>
    /\ ~adv.include_tx_power
    /\ adv_props = Advertisement_properties(adv)
    /\ DOMAIN adv_props = {"Type", "ServiceUUIDs"}

---------------------------------------------------------------------------
(* Properties of the registrar (SpecMain) *)

Lifecycle(at) ==
    CASE at = "find_adapter" -> "STARTING"
      [] at \in {"build_application", "register_application", "build_advertisement",
                 "register_advertisement"} -> "ADAPTER_DISCOVERED"
      [] at = "enter_mainloop" -> "REGISTERED"
      [] at = "mainloop" -> "RUNNING"
      [] at = "exited" -> "STOPPED"

HasAdapter(o) == ADAPTER_IFACE \in o.ifaces
NoAdapterEnumerated == \A i \in 1..Len(bluez_objects) : ~HasAdapter(bluez_objects[i])
IsFirstAdapter(path) ==
    \E i \in 1..Len(bluez_objects) :
        /\ HasAdapter(bluez_objects[i]) /\ bluez_objects[i].path = path
        /\ \A j \in 1..(i - 1) : ~HasAdapter(bluez_objects[j])

NothingBuilt == bus_objects = {} /\ submitted = <<>> /\ ~adv.exists /\ app_services = <<>>

\* The listed transitions, with their conditions
ListedTransition ==
    LET from == Lifecycle(pc)
        to == Lifecycle(pc')
    IN
    \/ /\ from = "STARTING" /\ to = "ADAPTER_DISCOVERED"
       /\ ~IsNone(adapter_path') /\ IsFirstAdapter(Get(adapter_path'))
    \/ from = "ADAPTER_DISCOVERED" /\ to = "REGISTERED"
    \/ from = "REGISTERED" /\ to = "RUNNING"
    \/ /\ from = "RUNNING" /\ to = "STOPPED"
       /\ stop_cause' = "interrupt caught" /\ exit_code' = Some(0)
    \/ /\ from = "STARTING" /\ to = "STOPPED"
       /\ NoAdapterEnumerated /\ exit_code' = Some(1) /\ NothingBuilt'

\* An exception leaves main() before the loop runs
UncaughtTransition ==
    /\ Lifecycle(pc) \in {"STARTING", "ADAPTER_DISCOVERED", "REGISTERED"}
    /\ Lifecycle(pc') = "STOPPED"
    /\ stop_cause' \in {"uncaught KeyboardInterrupt", "uncaught DBusException"}
    /\ ~IsNone(exit_code') /\ Get(exit_code') # 0

\* C8 as stated: the lifecycle moves only STARTING -> ADAPTER_DISCOVERED ->
\* REGISTERED -> RUNNING -> STOPPED, or STARTING -> STOPPED when no adapter is
\* enumerated (exit code 1, nothing constructed or registered); the first
\* adapter enumerated is used; RUNNING is left only on an interrupt, with
\* exit code 0.
C8_Original ==
    [][Lifecycle(pc') # Lifecycle(pc) => ListedTransition]_vars

\* C8 as amended: those transitions, and from every state before RUNNING a
\* transition to STOPPED with a non-zero exit status when an exception (the
\* KeyboardInterrupt of an interrupt signal, the error of a blocking D-Bus
\* call) leaves main() uncaught.
C8_Lifecycle ==
    [][Lifecycle(pc') # Lifecycle(pc) => (ListedTransition \/ UncaughtTransition)]_vars

C8_Witness ==
    /\ pc = "exited"
    /\ stop_cause = "interrupt caught"
    /\ exit_code = Some(0)
    /\ Len(bluez_objects) = 3
    /\ bluez_objects[1].path = "/org/bluez"
    /\ bluez_objects[2].path = "/org/bluez/hci1"
    /\ adapter_path = Some("/org/bluez/hci1")

\* C9: the application registration is submitted before the advertisement
\* registration, which is submitted while the application's answer is still
\* outstanding; whatever the answers and their order, the handlers only log,
\* the process enters the loop without waiting for them and leaves it only on
\* an interrupt, and it never ends because a registration was rejected.
C9_FireAndForget ==
    /\ [](/\ submitted \in {<<>>, <<RegisterApplication>>,
                            <<RegisterApplication, RegisterAdvertisement>>}
          /\ pc \in {"build_advertisement", "register_advertisement", "enter_mainloop"} =>
                reply[RegisterApplication] = "pending"
          /\ pc = "enter_mainloop" =>
                (reply[RegisterAdvertisement] = "pending" /\ ENABLED main_run)
          /\ (pc = "exited" /\ \E c \in DOMAIN reply : reply[c] = "error") =>
                (stop_cause = "interrupt caught" /\ exit_code = Some(0)))
    /\ [][\A call \in DOMAIN reply : \A ok \in BOOLEAN :
             registration_callback(call, ok) =>
                 /\ pc = "mainloop" /\ pc' = "mainloop"
                 /\ log' # <<>>
                 /\ UNCHANGED <<treeVars, readVars, managed, advVars, submitted,
                                adapter_path, exit_code, stop_cause>>]_vars
    /\ [][(pc = "mainloop" /\ pc' # "mainloop") => stop_cause' = "interrupt caught"]_vars

\* Both registrations rejected, the application's answer arriving last, and
\* the loop still running
C9_Witness ==
    /\ pc = "mainloop"
    /\ reply[RegisterApplication] = "error"
    /\ reply[RegisterAdvertisement] = "error"
    /\ log = <<LogRecord("error", "Failed to register application")>>
    /\ IsNone(exit_code)

====
